---- MODULE Spec2Model ----
(***************************************************************************)
(* Replay and analytics engine of server/server.py: handle_connect and the *)
(* tick loop run_race.                                                     *)
(*                                                                         *)
(* Units.  Wall-clock time, sample timestamps and lap durations are        *)
(* integers in deciseconds (0.1 s, the tick period).  Speeds are in        *)
(* 0.01 km/h, rpm in 1 rpm, brake and throttle in percent, accelerations   *)
(* in 0.1 g, tire wear in 0.0001 percent, temperatures in 0.1 degree.      *)
(* A Python value that may be None is a sequence: <<>> is None and <<x>>   *)
(* is the value x.                                                         *)
(***************************************************************************)
EXTENDS Integers, Sequences, FiniteSets, TLC

\* ------------------------------------------------------------------------
\* Bounds of the model
\* ------------------------------------------------------------------------
MaxLoops == 2
MaxTicks == 7
MaxRows == 3
MaxGeoRows == 5
MaxWeatherRows == 3
MaxWearTicks == 125
MaxHistoryTicks == 243

\* ------------------------------------------------------------------------
\* Python values
\* ------------------------------------------------------------------------
None == <<>>
Some(x) == <<x>>
IsNone(o) == o = <<>>
Val(o) == o[1]
\* Python truthiness of an optional number: None and 0 are falsy.
Truthy(o) == o # <<>> /\ o[1] # 0

Max(a, b) == IF a >= b THEN a ELSE b
Min(a, b) == IF a <= b THEN a ELSE b
Abs(a) == IF a < 0 THEN -a ELSE a

\* The last n elements of a list: s[-n:].
LastN(s, n) == IF Len(s) <= n THEN s ELSE SubSeq(s, Len(s) - n + 1, Len(s))

\* The two halves of a list of two or more elements.
FirstHalf(s) == SubSeq(s, 1, Len(s) \div 2)
SecondHalf(s) == SubSeq(s, Len(s) \div 2 + 1, Len(s))

\* sum, min and max of a list, taken over its halves.
RECURSIVE SeqSum(_)
SeqSum(s) ==
  IF s = <<>> THEN 0
  ELSE IF Len(s) = 1 THEN s[1]
  ELSE SeqSum(FirstHalf(s)) + SeqSum(SecondHalf(s))

RECURSIVE SeqMin(_)
SeqMin(s) ==
  IF Len(s) = 1 THEN s[1]
  ELSE Min(SeqMin(FirstHalf(s)), SeqMin(SecondHalf(s)))

RECURSIVE SeqMax(_)
SeqMax(s) ==
  IF Len(s) = 1 THEN s[1]
  ELSE Max(SeqMax(FirstHalf(s)), SeqMax(SecondHalf(s)))

\* ------------------------------------------------------------------------
\* Data model: normalized samples, weather rows, results feed
\* ------------------------------------------------------------------------
Sectors == {"S1", "S2", "S3"}

\* One row of telemetry_data as run_race reads it.  lap_value 0 stands for a
\* missing or NaN lap index, ts = None for a timestamp pd.to_datetime
\* cannot use; the rows are sorted by timestamp.  dist is distance_m from the row's position to start_point,
\* sector is get_current_sector of the row's position (None: no sector).
Row(lap, ts, dist, sector, speed, rpm, throttle, brake, accx) ==
  [lap_value |-> lap, ts |-> ts, dist |-> dist, sector |-> sector,
   speed |-> speed, rpm |-> rpm, gear |-> 3, throttle |-> throttle,
   brake |-> brake, acc_x |-> accx, acc_y |-> 0]

Weather(temp, track, wind, rain) ==
  [temp_c |-> temp, track_temp_c |-> track, humidity |-> 55,
   wind_kph |-> wind, rain |-> rain]

\* One entry of analysis_lap_map.
Analysis(lap, s1, s2, s3) == [lap |-> lap, s1 |-> s1, s2 |-> s2, s3 |-> s3]

NoData == <<>>
NoWeather == <<>>
NoAnalysis == <<>>

VARIABLES
  telemetry_data,       \* the loaded samples, NoData when no file was loaded
  weather_rows,         \* the loaded weather rows
  analysis_lap_map,     \* results feed: lap number -> Analysis record
  now,                  \* time.time()
  weather_idx,          \* _weather_idx
  last_weather_sent,
  session_best_lap,
  lap_durations,
  lap_times_history,
  lap_duration_records,
  session_insights,
  loops,                \* the locals of each run_race instance
  out                   \* what each instance did in its last tick

config == <<telemetry_data, weather_rows, analysis_lap_map>>
globals == <<weather_idx, last_weather_sent, session_best_lap, lap_durations,
             lap_times_history, lap_duration_records, session_insights>>
vars == <<config, now, globals, loops, out>>

LoopIds == 1..MaxLoops

\* time.time() when the server process starts; the geofence debounce compares
\* it with last_cross_time = 0.0, so it is far above the 5 s debounce.
Epoch0 == 1000

\* start_point is set whenever the telemetry file was loaded.
start_point == telemetry_data # NoData

RECURSIVE LapValues(_)
LapValues(data) ==
  IF data = <<>> THEN <<>>
  ELSE (IF Head(data).lap_value > 0 THEN <<Head(data).lap_value>> ELSE <<>>)
       \o LapValues(Tail(data))

\* lap_start_value: 1, or the first lap present in the dataset.
lap_start_value ==
  IF LapValues(telemetry_data) = <<>> THEN 1
  ELSE Max(1, SeqMin(LapValues(telemetry_data)))

\* total_laps: 22, or the highest lap of the dataset when that is larger.
total_laps ==
  IF LapValues(telemetry_data) = <<>> THEN 22
  ELSE Max(SeqMax(LapValues(telemetry_data)), 22)

top_speed_start_lap == Max(2, lap_start_value)
stats_start_lap == Max(2, lap_start_value)

\* fmt_lap_time: None for None or a non-positive value, else minutes and
\* hundredths of a second ("MM:SS.ss").
fmt_lap_time(sec) ==
  IF IsNone(sec) \/ Val(sec) <= 0 THEN None
  ELSE Some(<<Val(sec) \div 600, (Val(sec) % 600) * 10>>)

\* The session_insights dict the module installs after loading.
InsightsDefault ==
  [best_lap_seconds |-> None, best_lap |-> None, avg_lap_seconds |-> None,
   avg_lap |-> None, latest_vs_best |-> None, top_speed_kph |-> None,
   pit_count |-> 0, consistency_std |-> None, lap_times |-> <<>>,
   best_sectors |-> None]

NoSectorMap == [s \in Sectors |-> None]

\* The locals of run_race as its prologue sets them at time t.
RunRaceLocals(t) ==
  [pc |-> "running", ticks |-> 0,
   last_lap_elapsed_emit |-> 0, index |-> 0, tire_health |-> 10000,
   tires |-> [fl |-> 1000000, fr |-> 1000000, rl |-> 1000000, rr |-> 1000000],
   current_lap |-> lap_start_value, sim_lap_start |-> t,
   last_speed |-> 0, last_rpm |-> 0, last_cross_time |-> 0,
   prev_cross_time |-> None, last_lap_duration |-> None,
   session_best_speed |-> 0, near_start |-> FALSE,
   weather_snapshot |->
     IF weather_rows # <<>>
     THEN Some(weather_rows[(weather_idx % Len(weather_rows)) + 1])
     ELSE None,
   lap_timer_start |-> t, last_lap_value |-> None,
   last_lap_timestamp |-> None,
   current_sector_times |-> NoSectorMap, sector_start_times |-> NoSectorMap,
   current_sector |-> None, live_sector_times |-> NoSectorMap,
   lap_duration_used |-> [bound |-> FALSE, v |-> None]]

\* A run_race instance that was not started yet.
IdleLocals == [RunRaceLocals(0) EXCEPT !.pc = "idle", !.weather_snapshot = None]

\* Nothing emitted yet.  geo is the history of the geofence detector's
\* inputs and verdicts, sim that of the synthetic lap timer, lap_values that
\* of the samples' lap indexes, one entry per tick; timed is the history of
\* the timed lap completions: the lap that ended (the lap index left behind
\* by a lap index transition, else the lap in progress) and its duration;
\* occupancy is the history of the sector occupancy durations recorded.
NoOut ==
  [n |-> 0, emitted |-> FALSE, error |-> "none", geo |-> <<>>, sim |-> <<>>,
   lap_values |-> <<>>, timed |-> <<>>, occupancy |-> <<>>]

\* ------------------------------------------------------------------------
\* run_race, one tick: obtaining and normalizing the sample
\* ------------------------------------------------------------------------

\* The recorded speed, carried over or derived from rpm when it is missing,
\* then smoothed 0.97 / 0.03 against the previous tick's speed.
ResolveSpeed(raw, last_speed, rpm_hint) ==
  LET r1 == IF raw <= 0 /\ last_speed > 500 THEN last_speed ELSE raw
      r2 == IF r1 <= 0 /\ rpm_hint > 500
            THEN Max(800, (rpm_hint * 100) \div 80) ELSE r1
  IN  IF last_speed <= 0 THEN r2 ELSE (97 * r2 + 3 * last_speed) \div 100

\* The recorded rpm, carried over when it is at most 100, smoothed 0.95 / 0.05.
ResolveRpm(raw, last_rpm) ==
  LET r1 == IF raw <= 100 /\ last_rpm > 0 THEN last_rpm ELSE raw
  IN  IF last_rpm <= 0 THEN r1 ELSE (95 * r1 + 5 * last_rpm) \div 100

\* A brake value above 100 is raw pressure, rescaled against 1500.
ResolveBrake(brake) ==
  IF brake > 100 THEN Min(100, (brake * 100) \div 1500) ELSE brake

\* The virtual tire model: the loaded side wears by corner_load, every wheel
\* by brake_load * 0.25, each clamped at 0.
WearTires(tires, brake, acc_x) ==
  LET corner == 20 * Abs(acc_x)
      rear   == 18 * Abs(acc_x)
      braked == 25 * brake
      c == IF acc_x >= 0
           THEN [tires EXCEPT !.fl = Max(0, tires.fl - corner),
                              !.rl = Max(0, tires.rl - rear)]
           ELSE [tires EXCEPT !.fr = Max(0, tires.fr - corner),
                              !.rr = Max(0, tires.rr - rear)]
  IN  [k \in DOMAIN c |-> Max(0, c[k] - braked)]

\* tire_health = round(sum / 4, 2), in 0.01 percent.
TireHealth(tires) ==
  (tires.fl + tires.fr + tires.rl + tires.rr + 200) \div 400

\* A variant of AdvanceLap in which the counter follows the sample's lap
\* index in both directions; C5 does not hold for it.
AdvanceLapToSample(current_lap, lap_val) == lap_val

\* Line 515: the lap counter follows the sample's lap index upwards only.
AdvanceLap(current_lap, lap_val) == Max(current_lap, lap_val)

\* The lap_value signal of a recorded row: lap_val, the categorical crossing
\* and its duration, and the updated reference lap and timestamp.
LapValueSignal(L, row) ==
  LET lap_val == IF row.lap_value <= 0 THEN L.current_lap ELSE row.lap_value
      ts_dt   == row.ts
      first   == IsNone(L.last_lap_value)
      llv1    == IF first THEN lap_val ELSE Val(L.last_lap_value)
      llt1    == IF first THEN ts_dt ELSE L.last_lap_timestamp
      crossed == ~IsNone(ts_dt) /\ lap_val > llv1
  IN  [lap_val |-> lap_val,
       lap_crossed_data |-> crossed,
       lap_duration_data |->
         IF crossed /\ ~IsNone(llt1) THEN Some(Val(ts_dt) - Val(llt1)) ELSE None,
       last_lap_timestamp |-> IF crossed THEN ts_dt ELSE llt1,
       last_lap_value |-> Some(IF crossed THEN lap_val ELSE llv1),
       current_lap |-> AdvanceLap(L.current_lap, lap_val)]

\* A variant of SimLapStart in which the synthetic lap timer is never
\* restarted; C11 does not hold for it.
SimLapStartKept(fired, t, sim_lap_start) == sim_lap_start

\* Lines 630-632: the synthetic lap timer restarts on the tick it fires.
SimLapStart(fired, t, sim_lap_start) == IF fired THEN t ELSE sim_lap_start

\* sin(t) and cos(t) of build_sim_packet, in tenths.
Phases == {<<0, 10>>, <<10, 0>>, <<0, -10>>, <<-10, 0>>}

\* build_sim_packet: the synthetic sample at phase ph; its fixed position
\* (33.532, -86.619) lies in no sector box and 216 m from the S1 marker.
build_sim_packet(ph) ==
  [speed |-> 14000 + 400 * ph[1], rpm |-> 5000 + 150 * ph[1], gear |-> 4,
   throttle |-> 80, brake |-> 0, g_lat |-> ph[1], g_long |-> ph[2],
   dist |-> 0, sector |-> Some("S1")]

\* Lines 482-632: the sample of this tick, recorded or synthetic, with the
\* locals it updates.  t is time.time(), ph the phase of a synthetic sample.
Sample(L, t, ph) ==
  IF telemetry_data # NoData /\ L.index < Len(telemetry_data)
  THEN
    LET row   == telemetry_data[L.index + 1]
        sig   == LapValueSignal(L, row)
        speed == ResolveSpeed(row.speed, L.last_speed, row.rpm)
        brake == ResolveBrake(row.brake)
        tires == WearTires(L.tires, brake, row.acc_x)
        rpm   == ResolveRpm(row.rpm, L.last_rpm)
    IN  [recorded |-> TRUE, lap_value |-> row.lap_value,
         speed |-> speed, rpm |-> rpm, gear |-> row.gear,
         throttle |-> row.throttle, brake |-> brake, g_lat |-> row.acc_x,
         g_long |-> row.acc_y, dist |-> row.dist, sector |-> row.sector,
         tires |-> tires, tire_health |-> TireHealth(tires),
         lap |-> sig.current_lap, weather |-> L.weather_snapshot,
         lap_crossed_data |-> sig.lap_crossed_data,
         lap_duration_data |-> sig.lap_duration_data,
         lap_limit_for_sectors |-> Max(0, sig.lap_val),
         last_lap_value |-> sig.last_lap_value,
         last_lap_timestamp |-> sig.last_lap_timestamp,
         last_speed |-> Max(speed, 0), last_rpm |-> Max(rpm, 0),
         index |-> L.index + 1,
         reached_end |-> L.index + 1 >= Len(telemetry_data),
         lap_finished |-> FALSE, sim_lap_start |-> L.sim_lap_start]
  ELSE
    LET sim   == build_sim_packet(ph)
        tires == WearTires(L.tires, sim.brake, sim.g_lat)
        fired == t - L.sim_lap_start > 900
    IN  [recorded |-> FALSE, lap_value |-> 0,
         speed |-> sim.speed, rpm |-> sim.rpm, gear |-> sim.gear,
         throttle |-> sim.throttle, brake |-> sim.brake, g_lat |-> sim.g_lat,
         g_long |-> sim.g_long, dist |-> sim.dist, sector |-> sim.sector,
         tires |-> tires, tire_health |-> TireHealth(tires),
         lap |-> L.current_lap, weather |-> L.weather_snapshot,
         lap_crossed_data |-> FALSE, lap_duration_data |-> None,
         lap_limit_for_sectors |-> 0,
         last_lap_value |-> L.last_lap_value,
         last_lap_timestamp |-> L.last_lap_timestamp,
         last_speed |-> L.last_speed, last_rpm |-> L.last_rpm,
         index |-> L.index, reached_end |-> FALSE,
         lap_finished |-> fired,
         sim_lap_start |-> SimLapStart(fired, t, L.sim_lap_start)]

\* Lines 633-635: the weather cursor advances one row per tick, wrapping.
AdvanceWeather(L) ==
  IF weather_rows # <<>>
  THEN LET i == (weather_idx + 1) % Len(weather_rows)
       IN  [weather_idx |-> i, weather_snapshot |-> Some(weather_rows[i + 1])]
  ELSE [weather_idx |-> weather_idx, weather_snapshot |-> L.weather_snapshot]

\* ------------------------------------------------------------------------
\* Lap boundary detection
\* ------------------------------------------------------------------------

\* A variant of CrossingCondition without the near-start latch; C8 does not
\* hold for it.
CrossingWithoutLatch(dist, near_start, since) ==
  dist < 15 /\ since > 50

\* Line 641: inside the 15 m radius, not latched, and more than 5 s after
\* the last crossing.
CrossingCondition(dist, near_start, since) ==
  dist < 15 /\ ~near_start /\ since > 50

\* Lines 637-648: the geofence detector at distance dist and time t.
Geofence(L, dist, t) ==
  LET cross == start_point
               /\ CrossingCondition(dist, L.near_start, t - L.last_cross_time)
      prev  == IF cross
               THEN (IF L.last_cross_time # 0 THEN Some(L.last_cross_time)
                     ELSE None)
               ELSE L.prev_cross_time
      last  == IF cross THEN t ELSE L.last_cross_time
  IN  [lap_crossed |-> cross,
       prev_cross_time |-> prev,
       last_cross_time |-> last,
       near_start |-> IF cross THEN TRUE
                      ELSE IF start_point /\ dist > 25 THEN FALSE
                      ELSE L.near_start,
       lap_duration_geom |->
         IF cross /\ Truthy(prev) THEN Some(last - Val(prev)) ELSE None]

\* Line 650: the telemetry lap_value duration is preferred, the geometric
\* one is the fallback.
LapDurationThis(lap_crossed_data, lap_duration_data, lap_duration_geom) ==
  IF lap_crossed_data THEN lap_duration_data ELSE lap_duration_geom

\* ------------------------------------------------------------------------
\* Live sector tracking
\* ------------------------------------------------------------------------

\* The current-lap sector state carried over a lap boundary unchanged.
LapSectorStateKept(L, boundary) ==
  [current_sector_times |-> L.current_sector_times,
   sector_start_times |-> L.sector_start_times,
   current_sector |-> L.current_sector]

\* Lines 659-663: the current-lap sector state the classification starts
\* from; a lap boundary detected in this tick clears it.
LapSectorState(L, boundary) ==
  IF boundary
  THEN [current_sector_times |-> NoSectorMap,
        sector_start_times |-> NoSectorMap, current_sector |-> None]
  ELSE [current_sector_times |-> L.current_sector_times,
        sector_start_times |-> L.sector_start_times,
        current_sector |-> L.current_sector]

\* Every nonzero sector duration taken as the new best.
BeatsBestAlways(dur, best) == dur # 0

\* Line 676: the duration replaces the sector's best when there is none yet
\* or when it is strictly smaller.
BeatsBest(dur, best) ==
  dur # 0 /\ (IsNone(best) \/ dur < Val(best).seconds)

\* Lines 655-686.  boundary: a lap boundary was detected in this tick.
\* recorded is the occupancy duration line 673 stores, if any.
SectorTrack(L, new_sector, boundary, current_lap, t) ==
  LET st0  == LapSectorState(L, boundary)
      cst0 == st0.current_sector_times
      sst0 == st0.sector_start_times
      cs0  == st0.current_sector
      change == ~IsNone(new_sector) /\ new_sector # cs0
      left   == change /\ ~IsNone(cs0) /\ ~IsNone(sst0[Val(cs0)])
      dur    == IF left THEN t - Val(sst0[Val(cs0)]) ELSE 0
      better == left /\ BeatsBest(dur, L.live_sector_times[Val(cs0)])
  IN  [recorded |-> IF left THEN Some([sector |-> Val(cs0), seconds |-> dur])
                    ELSE None,
       current_sector_times |->
         IF left THEN [cst0 EXCEPT ![Val(cs0)] = Some(dur)] ELSE cst0,
       sector_start_times |->
         IF change THEN [sst0 EXCEPT ![Val(new_sector)] = Some(t)] ELSE sst0,
       current_sector |-> IF change THEN new_sector ELSE cs0,
       live_sector_times |->
         IF better
         THEN [L.live_sector_times EXCEPT ![Val(cs0)] =
                 Some([seconds |-> dur, lap |-> current_lap,
                       formatted |-> fmt_lap_time(Some(dur))])]
         ELSE L.live_sector_times,
       dirty |-> better]

\* ------------------------------------------------------------------------
\* Alerts
\* ------------------------------------------------------------------------
Alert(msg, type) == [msg |-> msg, type |-> type, lap |-> 0, val |-> 0]
AlertOf(msg, type, lap, val) == [msg |-> msg, type |-> type, lap |-> lap, val |-> val]

When(cond, alert) == IF cond THEN <<alert>> ELSE <<>>

\* A variant of HeavyBraking that a peak lateral load suppresses; C15 does
\* not hold for it.
HeavyBrakingUnlessLateral(p) ==
  p.brake > 85 /\ p.speed > 8000 /\ Abs(p.g_lat) <= 18

\* Line 704: the condition of the heavy-braking rule.
HeavyBraking(p) == p.brake > 85 /\ p.speed > 8000

\* Lines 703-746: the threshold rules, each appending its alert when its
\* condition holds.  p is the packet, last_speed the local after the sample.
RuleAlerts(p, last_speed) ==
  LET g == Abs(p.g_lat)
      fronts2 == p.tire_healths.fl + p.tire_healths.fr
      rears2  == p.tire_healths.rl + p.tire_healths.rr
      w == p.weather
  IN
  When(HeavyBraking(p),
       Alert("Heavy braking sustained; lift sooner to save brakes.", "warn"))
  \o When(p.brake > 30 /\ p.throttle > 20,
       Alert("Separate brake and throttle to reduce scrub.", "info"))
  \o When(g > 12 /\ p.speed < 9000,
       Alert("Carry more mid-corner speed; open steering earlier.", "info"))
  \o When(g > 16 /\ p.throttle > 40,
       Alert("Ease throttle to prevent over-rotation.", "warn"))
  \o When(g > 18,
       Alert("Peak lateral load; unwind steering sooner.", "warn"))
  \o When(p.speed > 15000 /\ p.brake > 20 /\ p.speed < 11000,
       Alert("Brake a touch later; entry speed leaving time on table.", "info"))
  \o When(p.throttle < 35 /\ p.brake < 5 /\ last_speed - p.speed > 800,
       Alert("Feed throttle earlier on exit to recover speed.", "info"))
  \o When(p.rpm > 7200,
       Alert("High RPM; upshift sooner to protect engine.", "warn"))
  \o When(p.tire_health < 8500 /\ p.rpm > 6500,
       Alert("Short-shift to reduce tire slip.", "info"))
  \o When(p.tire_health < 9000,
       Alert("Tire wear emerging - manage inputs.", "info"))
  \o When(p.brake > 80 /\ fronts2 + 100000 < rears2,
       Alert("Fronts wearing faster; release brake earlier or bias rearward.", "warn"))
  \o When(~IsNone(w) /\ Val(w).track_temp_c > 400 /\ p.tire_health < 8000,
       Alert("Hot track; back off 5% entry to save tires.", "info"))
  \o When(~IsNone(w) /\ Val(w).rain > 0,
       Alert("Rain detected; extend brake zones and smooth throttle.", "warn"))
  \o When(~IsNone(w) /\ Val(w).wind_kph > 15,
       Alert("High wind; expect aero loss in fast corners.", "info"))

\* A variant of CoachingTip that tests the tire health first; C14 does not
\* hold for it.
CoachingTipTireFirst(p, lap_finished, lap_duration_this, current_lap) ==
  IF p.tire_health < 8500
  THEN Some(AlertOf("Back off 5% entry speed to save fronts for the stint.", "info", 0, 0))
  ELSE IF p.brake > 50 /\ p.throttle > 30
  THEN Some(AlertOf("Blend off brake before throttle to reduce tire scrub.", "info", 0, 0))
  ELSE IF Abs(p.g_lat) > 12 /\ p.speed < 8000
  THEN Some(AlertOf("Carry a touch more mid-corner speed; open steering sooner.", "info", 0, 0))
  ELSE IF lap_finished /\ ~Truthy(lap_duration_this)
  THEN Some(AlertOf("Lap complete. Compare sector deltas.", "info", current_lap, 0))
  ELSE None

\* Lines 832-841: the coaching tip, the first condition that holds.
CoachingTip(p, lap_finished, lap_duration_this, current_lap) ==
  IF p.brake > 50 /\ p.throttle > 30
  THEN Some(AlertOf("Blend off brake before throttle to reduce tire scrub.", "info", 0, 0))
  ELSE IF Abs(p.g_lat) > 12 /\ p.speed < 8000
  THEN Some(AlertOf("Carry a touch more mid-corner speed; open steering sooner.", "info", 0, 0))
  ELSE IF p.tire_health < 8500
  THEN Some(AlertOf("Back off 5% entry speed to save fronts for the stint.", "info", 0, 0))
  ELSE IF lap_finished /\ ~Truthy(lap_duration_this)
  THEN Some(AlertOf("Lap complete. Compare sector deltas.", "info", current_lap, 0))
  ELSE None

\* ------------------------------------------------------------------------
\* Session statistics
\* ------------------------------------------------------------------------
RECURSIVE ISqrtIn(_, _, _)
ISqrtIn(n, lo, hi) ==
  IF lo >= hi THEN lo
  ELSE LET mid == (lo + hi + 1) \div 2
       IN  IF mid * mid <= n THEN ISqrtIn(n, mid, hi) ELSE ISqrtIn(n, lo, mid - 1)

\* np.std of a non-empty list (population standard deviation), rounded down.
StdDev(xs) ==
  LET n  == Len(xs)
      sq == [i \in 1..n |-> xs[i] * xs[i]]
      v  == n * SeqSum(sq) - SeqSum(xs) * SeqSum(xs)
      hi == n * SeqMax([i \in 1..n |-> Abs(xs[i])])
  IN  ISqrtIn(v, 0, hi) \div n

\* Line 767: the durations of the records at or after stats_start_lap that
\* are not None.
RECURSIVE Filtered(_)
Filtered(records) ==
  IF records = <<>> THEN <<>>
  ELSE IF Len(records) = 1
  THEN LET r == records[1]
       IN  IF r[1] >= stats_start_lap /\ ~IsNone(r[2]) THEN <<Val(r[2])>> ELSE <<>>
  ELSE Filtered(FirstHalf(records)) \o Filtered(SecondHalf(records))

\* Lines 749-760: the lap-complete alert, lap_durations, session_best_lap and
\* the pace alerts, for a lap duration d that is not None and not 0.
LapAlerts(current_lap, d) ==
  LET durs == Append(lap_durations, d)
      first == IsNone(session_best_lap) \/ d < Val(session_best_lap)
      off   == ~first /\ Truthy(session_best_lap)
               /\ d > Val(session_best_lap) + 10
      recent == LastN(durs, 3)
  IN  [alerts |->
         <<AlertOf("Lap complete in", "success", current_lap, d)>>
         \o When(off, AlertOf("Off best by; focus on earlier throttle at exit.",
                              "info", 0, d - Val(session_best_lap)))
         \o When(Len(durs) >= 3 /\ SeqMax(recent) - SeqMin(recent) > 8,
                 Alert("Lap variance high; stabilize braking points.", "info")),
       lap_durations |-> durs,
       session_best_lap |-> IF first THEN Some(d) ELSE session_best_lap]

\* Lines 761-788: the history entry, the statistics record and the session
\* insights of a timed lap completion.  used is the local lap_duration_used
\* as the tick finds it; error is the exception the block raises, if any.
LapStatistics(used, current_lap, ins, session_best_speed) ==
  IF ~used.bound THEN
    [error |-> "UnboundLocalError",
     lap_times_history |-> lap_times_history,
     lap_duration_records |-> lap_duration_records,
     session_insights |-> ins]
  ELSE
    LET hist == LastN(Append(lap_times_history,
                        [lap |-> current_lap, seconds |-> used.v,
                         provisional |-> FALSE]), 120)
        recs == IF current_lap >= stats_start_lap
                THEN LastN(Append(lap_duration_records, <<current_lap, used.v>>), 120)
                ELSE lap_duration_records
        filtered == Filtered(recs)
        best == IF filtered = <<>> THEN None ELSE Some(SeqMin(filtered))
        avg  == IF filtered = <<>> THEN None
                ELSE Some(SeqSum(filtered) \div Len(filtered))
    IN  IF Truthy(best) /\ IsNone(used.v) THEN
          [error |-> "TypeError",
           lap_times_history |-> hist,
           lap_duration_records |-> recs,
           session_insights |-> ins]
        ELSE
          [error |-> "none",
           lap_times_history |-> hist,
           lap_duration_records |-> recs,
           session_insights |->
             [ins EXCEPT
                !.best_lap_seconds = best,
                !.best_lap = fmt_lap_time(best),
                !.avg_lap_seconds = avg,
                !.avg_lap = fmt_lap_time(avg),
                !.top_speed_kph = IF session_best_speed > 0
                                  THEN Some(session_best_speed)
                                  ELSE ins.top_speed_kph,
                !.lap_times = hist,
                !.latest_vs_best = IF Truthy(best)
                                   THEN Some(Val(used.v) - Val(best)) ELSE None,
                !.best_sectors = None,
                !.consistency_std = IF Len(filtered) >= 2
                                    THEN Some(StdDev(LastN(filtered, 5)))
                                    ELSE None]]

\* Lines 803-825: the best value of one sector over the results feed's laps
\* from stats_start_lap to lap_limit, taken from the lowest such lap.
RECURSIVE BestSectorFrom(_, _, _, _)
BestSectorFrom(key, lap_no, lap_limit, acc) ==
  IF lap_no > lap_limit THEN acc
  ELSE LET v == IF lap_no \in DOMAIN analysis_lap_map
                THEN analysis_lap_map[lap_no][key] ELSE None
           better == Truthy(v) /\ (IsNone(acc) \/ Val(v) < Val(acc).seconds)
       IN  BestSectorFrom(key, lap_no + 1, lap_limit,
             IF better THEN Some([seconds |-> Val(v), lap |-> lap_no]) ELSE acc)

\* The highest lap of the results feed, 0 for an empty feed: the loop of
\* line 808 visits the feed's laps only.
LastFeedLap ==
  IF DOMAIN analysis_lap_map = {} THEN 0
  ELSE CHOOSE k \in DOMAIN analysis_lap_map :
         \A m \in DOMAIN analysis_lap_map : m <= k

BestSectorsLive(lap_limit) ==
  [k \in Sectors |->
     LET b == BestSectorFrom(IF k = "S1" THEN "s1" ELSE IF k = "S2" THEN "s2" ELSE "s3",
                             stats_start_lap, Min(lap_limit, LastFeedLap), None)
     IN  IF IsNone(b) THEN None
         ELSE Some([time |-> fmt_lap_time(Some(Val(b).seconds)), lap |-> Val(b).lap])]

\* A variant of WrapIndex that leaves the cursor behind the last sample; C19
\* does not hold for it.
KeepIndex(reached_end, index) == index

\* Lines 860-863: at the end of the data the cursor returns to the first
\* sample.
WrapIndex(reached_end, index) ==
  IF reached_end /\ telemetry_data # NoData THEN 0 ELSE index

\* Lines 849-868: the end of the tick's lap bookkeeping.
LapFinish(current_lap, index, lap_crossed, lap_crossed_data, reached_end, lap_duration_this, used, last_lap_duration) ==
  LET finished == lap_crossed \/ lap_crossed_data \/ reached_end
      feed == IF current_lap \in DOMAIN analysis_lap_map
              THEN analysis_lap_map[current_lap].lap ELSE None
      u == IF ~IsNone(feed) /\ Val(feed) > 0 THEN feed ELSE lap_duration_this
  IN  [lap_finished |-> finished,
       lap_duration_used |-> IF finished THEN [bound |-> TRUE, v |-> u] ELSE used,
       last_lap_duration |-> IF finished /\ Truthy(u) THEN u ELSE last_lap_duration,
       current_lap |-> IF ~finished THEN current_lap
                       ELSE IF reached_end THEN current_lap + 1
                       ELSE IF lap_crossed_data THEN current_lap
                       ELSE current_lap + 1,
       index |-> IF finished THEN WrapIndex(reached_end, index) ELSE index]

\* Lines 870-886: weather damping.  ws is the cursor's snapshot, pw the
\* weather the packet carries so far.
WeatherDamp(ws, pw) ==
  LET close == Abs(Val(ws).temp_c - Val(last_weather_sent).temp_c) < 10
               /\ Abs(Val(ws).track_temp_c - Val(last_weather_sent).track_temp_c) < 10
      sent == IF ~IsNone(ws) /\ ~IsNone(last_weather_sent)
              THEN (IF close THEN last_weather_sent ELSE ws)
              ELSE IF ~IsNone(ws) THEN ws ELSE last_weather_sent
      pw1  == IF ~IsNone(ws) /\ ~IsNone(last_weather_sent) /\ close
              THEN last_weather_sent ELSE pw
  IN  [last_weather_sent |-> sent,
       weather |-> IF ~IsNone(pw1) THEN pw1 ELSE sent]

\* ------------------------------------------------------------------------
\* run_race: one iteration of the while loop (lines 473-892)
\* ------------------------------------------------------------------------

\* Lines 588-604 and 651-653: the packet before alerts and weather damping.
PacketOf(smp, ldt) ==
  [speed |-> smp.speed, rpm |-> smp.rpm, gear |-> smp.gear,
   throttle |-> smp.throttle, brake |-> smp.brake,
   g_lat |-> smp.g_lat, g_long |-> smp.g_long,
   dist |-> smp.dist, sector |-> smp.sector,
   tire_health |-> smp.tire_health, tire_healths |-> smp.tires,
   lap |-> smp.lap, total_laps |-> total_laps,
   weather |-> smp.weather,
   lap_time_sec |-> IF Truthy(ldt) THEN ldt ELSE None,
   lap_time_str |-> IF Truthy(ldt) THEN fmt_lap_time(ldt) ELSE None]

\* Lines 697-701: the session top speed after this tick's speed.
TopSpeed(L, smp) ==
  LET better == smp.lap >= top_speed_start_lap
                /\ smp.speed > L.session_best_speed + 50
  IN  [new_top_speed |-> better,
       session_best_speed |-> IF better THEN smp.speed ELSE L.session_best_speed]

\* A variant of FinalAlerts that appends the default alert to every list;
\* C13 does not hold for it.
FinalAlertsAlways(alerts, tip) ==
  alerts \o (IF IsNone(tip) THEN <<>> ELSE <<Val(tip)>>)
  \o <<Alert("Pace steady. Look for brake markers.", "info")>>

\* Lines 842-845: the tip is appended, and an empty list gets the default.
FinalAlerts(alerts, tip) ==
  LET a == alerts \o (IF IsNone(tip) THEN <<>> ELSE <<Val(tip)>>)
  IN  IF a = <<>>
      THEN <<Alert("Pace steady. Look for brake markers.", "info")>>
      ELSE a

\* The tick of instance l at time t; ph is the phase of a synthetic sample.
\* Each stage is computed once, in the order of the loop body.
run_race_tick(l, t, ph) ==
  \E L \in {loops[l]} :
  \E elapsed \in {Max(0, t - L.lap_timer_start)} :
  \E smp \in {Sample(L, t, ph)} :
  \E wx \in {AdvanceWeather(L)} :
  \E geo \in {Geofence(L, smp.dist, t)} :
  \E ldt \in {LapDurationThis(smp.lap_crossed_data, smp.lap_duration_data,
                              geo.lap_duration_geom)} :
  \E sec \in {SectorTrack(L, smp.sector,
                geo.lap_crossed \/ smp.lap_crossed_data \/ smp.reached_end,
                smp.lap, t)} :
  \* lines 688-694
  \E ins1 \in {[session_insights EXCEPT !.lap_times =
                  Append(lap_times_history,
                    [lap |-> smp.lap, seconds |-> Some(elapsed),
                     provisional |-> TRUE])]} :
  \E emit_elapsed \in {Abs(elapsed - L.last_lap_elapsed_emit) > 5} :
  \E top \in {TopSpeed(L, smp)} :
  \E p0 \in {PacketOf(smp, ldt)} :
  \E rules \in {RuleAlerts(p0, smp.last_speed)} :
  \* lines 748-788
  \E la \in {IF Truthy(ldt) THEN LapAlerts(smp.lap, Val(ldt))
             ELSE [alerts |-> <<>>, lap_durations |-> lap_durations,
                   session_best_lap |-> session_best_lap]} :
  \E st \in {IF Truthy(ldt)
             THEN LapStatistics(L.lap_duration_used, smp.lap, ins1,
                                top.session_best_speed)
             ELSE [error |-> "none", lap_times_history |-> lap_times_history,
                   lap_duration_records |-> lap_duration_records,
                   session_insights |-> ins1]} :
  \E seen \in {[n |-> L.ticks + 1, t |-> t, recorded |-> smp.recorded,
                dist |-> smp.dist, lap_value |-> smp.lap_value,
                geo |-> Append(out[l].geo,
                          [dist |-> smp.dist, t |-> t,
                           crossed |-> geo.lap_crossed]),
                lap_values |-> Append(out[l].lap_values, smp.lap_value),
                timed |-> IF Truthy(ldt)
                          THEN Append(out[l].timed,
                                 [lap |-> IF smp.lap_crossed_data
                                          THEN Val(L.last_lap_value)
                                          ELSE smp.lap,
                                  seconds |-> Val(ldt)])
                          ELSE out[l].timed,
                occupancy |-> IF IsNone(sec.recorded) THEN out[l].occupancy
                              ELSE Append(out[l].occupancy, Val(sec.recorded)),
                new_sector |-> smp.sector,
                sector_before |-> L.current_sector,
                sim |-> Append(out[l].sim,
                          [t |-> t, fired |-> smp.lap_finished]),
                started |-> IF L.ticks = 0 THEN L.sim_lap_start
                            ELSE out[l].started,
                lap_crossed |-> geo.lap_crossed,
                lap_crossed_data |-> smp.lap_crossed_data,
                lap_duration_data |-> smp.lap_duration_data,
                lap_duration_geom |-> geo.lap_duration_geom,
                reached_end |-> smp.reached_end,
                sim_lap_finished |-> smp.lap_finished,
                lap_duration_this |-> ldt,
                lap_duration_recorded |-> L.lap_duration_used,
                best_before |-> session_insights.best_lap_seconds,
                snapshot |-> wx.weather_snapshot,
                sent_before |-> last_weather_sent]} :
  /\ weather_idx' = wx.weather_idx
  /\ session_best_lap' = la.session_best_lap
  /\ lap_durations' = la.lap_durations
  /\ lap_times_history' = st.lap_times_history
  /\ lap_duration_records' = st.lap_duration_records
  /\ IF st.error # "none" THEN
       \* the exception ends the background task; no packet is emitted
       /\ loops' = [loops EXCEPT ![l].pc = "crashed", ![l].ticks = L.ticks + 1]
       /\ last_weather_sent' = last_weather_sent
       /\ session_insights' = st.session_insights
       /\ out' = [out EXCEPT ![l] =
                    seen @@ [emitted |-> FALSE, error |-> st.error]]
     ELSE
       \* lines 790-793
       \E top_alert \in {top.new_top_speed /\ smp.speed > 12000} :
       \E ins2 \in {IF top_alert
                    THEN [st.session_insights EXCEPT
                            !.top_speed_kph = Some(top.session_best_speed)]
                    ELSE st.session_insights} :
       \* lines 795-830
       \E lap_limit \in {Max(smp.lap_limit_for_sectors, smp.lap)} :
       \E sectors_live \in {BestSectorsLive(lap_limit)} :
       \E sectors_new \in {lap_limit >= stats_start_lap /\ Truthy(ldt)
                           /\ Some(sectors_live) # ins2.best_sectors} :
       \* lines 832-847
       \E tip \in {CoachingTip(p0, smp.lap_finished, ldt, smp.lap)} :
       \E alerts \in {FinalAlerts(
                        rules \o la.alerts
                        \o When(top_alert,
                                AlertOf("New top speed", "success", 0, smp.speed)),
                        tip)} :
       \* lines 849-868
       \E fin \in {LapFinish(smp.lap, smp.index, geo.lap_crossed,
                             smp.lap_crossed_data, smp.reached_end, ldt,
                             L.lap_duration_used, L.last_lap_duration)} :
       \* lines 870-886
       \E wd \in {WeatherDamp(wx.weather_snapshot, smp.weather)} :
       /\ last_weather_sent' = wd.last_weather_sent
       /\ session_insights' =
            IF sectors_new THEN [ins2 EXCEPT !.best_sectors = Some(sectors_live)]
            ELSE ins2
       /\ loops' = [loops EXCEPT ![l] =
            [pc |-> "running", ticks |-> L.ticks + 1,
             last_lap_elapsed_emit |->
               IF emit_elapsed THEN elapsed ELSE L.last_lap_elapsed_emit,
             index |-> fin.index, tire_health |-> smp.tire_health,
             tires |-> smp.tires, current_lap |-> fin.current_lap,
             sim_lap_start |-> smp.sim_lap_start,
             last_speed |-> smp.last_speed, last_rpm |-> smp.last_rpm,
             last_cross_time |-> geo.last_cross_time,
             prev_cross_time |-> geo.prev_cross_time,
             last_lap_duration |-> fin.last_lap_duration,
             session_best_speed |-> top.session_best_speed,
             near_start |-> geo.near_start,
             weather_snapshot |-> wx.weather_snapshot,
             lap_timer_start |-> IF Truthy(ldt) THEN t ELSE L.lap_timer_start,
             last_lap_value |-> smp.last_lap_value,
             last_lap_timestamp |-> smp.last_lap_timestamp,
             current_sector_times |-> sec.current_sector_times,
             sector_start_times |-> sec.sector_start_times,
             current_sector |-> sec.current_sector,
             live_sector_times |-> sec.live_sector_times,
             lap_duration_used |-> fin.lap_duration_used]]
       /\ out' = [out EXCEPT ![l] =
            seen @@
            [emitted |-> TRUE, error |-> "none",
             lap_finished |-> fin.lap_finished,
             rules_matched |-> Len(rules) + Len(la.alerts)
                               + (IF top_alert THEN 1 ELSE 0),
             insights_dirty |-> sec.dirty \/ emit_elapsed \/ Truthy(ldt)
                                \/ top_alert \/ sectors_new,
             packet |-> [p0 EXCEPT !.weather = wd.weather] @@
                        [alerts |-> alerts, coaching_tip |-> tip]]]

\* ------------------------------------------------------------------------
\* Actions
\* ------------------------------------------------------------------------
Init(envs) ==
  /\ \E e \in envs :
       /\ telemetry_data = e.data
       /\ weather_rows = e.weather
       /\ analysis_lap_map = e.analysis
  /\ now = Epoch0
  /\ weather_idx = 0
  /\ last_weather_sent = None
  /\ session_best_lap = None
  /\ lap_durations = <<>>
  /\ lap_times_history = <<>>
  /\ lap_duration_records = <<>>
  /\ session_insights = InsightsDefault
  /\ loops = [l \in LoopIds |-> IdleLocals]
  /\ out = [l \in LoopIds |-> NoOut]

\* handle_connect: every connect starts run_race as a background task.
handle_connect(l) ==
  /\ loops[l].pc = "idle"
  /\ \A k \in LoopIds : k < l => loops[k].pc # "idle"
  /\ loops' = [loops EXCEPT ![l].pc = "spawned"]
  /\ UNCHANGED <<config, now, globals, out>>

\* run_race up to its while loop (lines 412-471): the session globals are
\* reset and the locals initialised.
run_race_start(l) ==
  /\ loops[l].pc = "spawned"
  /\ session_best_lap' = None
  /\ lap_durations' = <<>>
  /\ lap_duration_records' = <<>>
  /\ lap_times_history' = <<>>
  /\ session_insights' =
       [session_insights EXCEPT
          !.best_lap_seconds = None, !.best_lap = None,
          !.avg_lap_seconds = None, !.avg_lap = None,
          !.latest_vs_best = None, !.lap_times = <<>>,
          !.consistency_std = None, !.top_speed_kph = None]
  /\ loops' = [loops EXCEPT ![l] = RunRaceLocals(now)]
  /\ UNCHANGED <<config, now, weather_idx, last_weather_sent, out>>

\* One iteration of the loop of instance l, dt after the previous step.
RunTick(l, dt) ==
  /\ loops[l].pc = "running"
  /\ now' = now + dt
  /\ \E ph \in (IF telemetry_data = NoData THEN Phases ELSE {<<0, 10>>}) :
       run_race_tick(l, now + dt, ph)
  /\ UNCHANGED config

\* An iteration within the horizon of the short sessions.
Tick(l, dt) == loops[l].ticks < MaxTicks /\ RunTick(l, dt)

\* ------------------------------------------------------------------------
\* Environments: what the data loading leaves for the engine
\* ------------------------------------------------------------------------
SeqsUpTo(S, n) == UNION {[1..k -> S] : k \in 1..n}

\* Timestamp of the i-th row: increasing, with shrinking steps, so that
\* successive laps of equally many rows get faster.
TsOf(i) == 400 * i - 30 * i * i

Env(data, weather, analysis) ==
  [data |-> data, weather |-> weather, analysis |-> analysis]

\* Lines 247-256: start_point is the position of a row of the dataset, so
\* some row lies inside the 15 m radius (distance 10 stands for any distance
\* below 15 m, 20 for the dead band, 30 for any distance above 25 m).
AtStart(data) == \E i \in DOMAIN data : data[i].dist < 15

\* Rows that differ in lap index and distance to the start/finish point.
LapRow(lap, dist, i) == Row(lap, Some(TsOf(i)), dist, None, 10000, 4000, 50, 0, 0)

LapData ==
  {data \in {[i \in DOMAIN d |-> LapRow(d[i][1], d[i][2], i)] :
               d \in SeqsUpTo((0..3) \X {10, 30}, MaxRows)} : AtStart(data)}

FeedFor(lap, secs) == (lap :> Analysis(Some(secs), None, None, None))

EnvLap ==
  {Env(d, NoWeather, a) :
     d \in LapData, a \in {NoAnalysis, FeedFor(2, 100), FeedFor(3, 100)}}

\* Geofence only: every row carries lap index 1, so the lap index never
\* rises; distances inside the 15 m radius, in the dead band and outside 25 m.
GeoData ==
  {data \in {[i \in 1..MaxGeoRows |-> LapRow(1, d[i], i)] :
               d \in [1..MaxGeoRows -> {10, 20, 30}]} : AtStart(data)}

EnvGeo == {Env(d, NoWeather, NoAnalysis) : d \in GeoData}

\* Geofence laps with a results feed for lap 2 or lap 3.
EnvFeed ==
  {Env(data, NoWeather, a) :
     data \in {x \in {[i \in DOMAIN d |-> LapRow(1, d[i], i)] :
                        d \in SeqsUpTo({10, 30}, MaxRows)} : AtStart(x)},
     a \in {FeedFor(2, 100), FeedFor(3, 100)}}

\* Brake and lateral acceleration as the file gives them: percent (a sensor
\* offset can make it negative), raw pressure above 100, and either sign of
\* acceleration.
TireRow(brake, accx, i) ==
  Row(1, Some(TsOf(i)), 10, None, 10000, 4000, 50, brake, accx)

TireData ==
  {[i \in DOMAIN d |-> TireRow(d[i][1], d[i][2], i)] :
     d \in SeqsUpTo({-40, 0, 60, 3000} \X {-15, 0, 15}, MaxRows - 1)}

EnvTire == {Env(d, NoWeather, NoAnalysis) : d \in TireData \cup {NoData}}

\* Weather feeds whose rows differ by less and by more than 1 degree.
WeatherData ==
  SeqsUpTo({Weather(temp, track, 8, 0) :
              temp \in {200, 205, 250}, track \in {300, 320}}, MaxWeatherRows)

EnvWeather == {Env(<<LapRow(1, 10, 1)>>, w, NoAnalysis) : w \in WeatherData}

\* No telemetry file: the loop synthesizes its samples.
EnvSim == {Env(NoData, NoWeather, NoAnalysis)}

\* Rows that differ in the inputs of the alert rules and of the coaching
\* tip: brake, throttle, lateral acceleration and speed.
AlertRow(brake, throttle, accx, speed, i) ==
  Row(1, Some(TsOf(i)), 10, None, speed, 4000, throttle, brake, accx)

AlertData ==
  {[i \in DOMAIN d |-> AlertRow(d[i][1], d[i][2], d[i][3], d[i][4], i)] :
     d \in SeqsUpTo({0, 100} \X {25, 50} \X {0, 19} \X {7000, 10000}, 2)}

EnvAlert == {Env(d, NoWeather, NoAnalysis) : d \in AlertData \cup {NoData}}

\* Rows whose timestamp string pd.to_datetime can or cannot read; the rows
\* are sorted by that string, so an unreadable one may stand anywhere.
StampRow(lap, readable, dist, i) ==
  Row(lap, IF readable THEN Some(TsOf(i)) ELSE None, dist, None,
      10000, 4000, 50, 0, 0)

StampData ==
  {data \in {[i \in DOMAIN d |-> StampRow(d[i][1], d[i][2], d[i][3], i)] :
               d \in SeqsUpTo({1, 2} \X BOOLEAN \X {10, 30}, MaxRows)} :
     AtStart(data)}

EnvStamp == {Env(d, NoWeather, NoAnalysis) : d \in StampData}

\* Rows that differ in the sector of their position.
SectorRow(lap, dist, sector, i) ==
  Row(lap, Some(TsOf(i)), dist, Some(sector), 10000, 4000, 50, 0, 0)

\* MaxRows rows starting at the start/finish point: "latched" stays within
\* 25 m of it, so the geofence fires once; "released" leaves it, so the
\* geofence fires on every replay; "stepped" is "latched" with the lap index
\* rising on the last row.  Every row lies in sector S1 or S2.
SectorData ==
  {[i \in 1..MaxRows |->
      SectorRow(IF shape = "stepped" /\ i = MaxRows THEN 2 ELSE 1,
                IF i = 1 THEN 10 ELSE IF shape = "released" THEN 30 ELSE 20,
                sec[i], i)] :
     shape \in {"latched", "released", "stepped"},
     sec \in [1..MaxRows -> {"S1", "S2"}]}

EnvSector == {Env(d, NoWeather, NoAnalysis) : d \in SectorData}

\* One dataset and one weather feed, for several clients.
EnvConn ==
  {Env(<<LapRow(1, 10, 1), LapRow(1, 30, 2)>>,
       <<Weather(200, 300, 8, 0), Weather(250, 350, 8, 0)>>, NoAnalysis)}

\* ------------------------------------------------------------------------
\* Specifications
\* ------------------------------------------------------------------------

\* One client connects; ticks follow each other after a delay in DT (the
\* loop sleeps 0.1 s between ticks and may be scheduled later).
Session(DT) ==
  \/ handle_connect(1)
  \/ run_race_start(1)
  \/ \E dt \in DT : Tick(1, dt)

\* Any number of clients connect, each connect starting its own run_race.
Connections ==
  \E l \in LoopIds :
    \/ handle_connect(l)
    \/ run_race_start(l)
    \/ Tick(l, 1)

Spec == Init(EnvConn) /\ [][Connections]_vars

\* Laps by lap index, geofence and end of data, with a results feed.
SpecLap == Init(EnvLap) /\ [][Session({60})]_vars

\* Laps by geofence alone: the dataset is replayed once and wraps, with
\* ticks 2 s or 6 s apart.
GeoSession ==
  \/ handle_connect(1)
  \/ run_race_start(1)
  \/ \E dt \in {20, 60} : loops[1].ticks <= MaxGeoRows /\ Tick(1, dt)

SpecGeo == Init(EnvGeo) /\ [][GeoSession]_vars

\* Laps by geofence alone, timed against a results feed.
SpecFeed == Init(EnvFeed) /\ [][Session({60})]_vars

\* Tire wear under recorded and synthetic samples.
SpecTire == Init(EnvTire) /\ [][Session({1})]_vars

\* The weather cursor and the damping of dispatched weather.
SpecWeather == Init(EnvWeather) /\ [][Session({1})]_vars

\* Lap indexes on samples with readable and unreadable timestamps.
SpecStamp == Init(EnvStamp) /\ [][Session({60})]_vars

\* A long session: two samples, one at the start point and one away from it,
\* replayed with ticks 3 s apart, so that every second tick completes a lap
\* at the geofence.
HistorySession ==
  \/ handle_connect(1)
  \/ run_race_start(1)
  \/ loops[1].ticks < MaxHistoryTicks /\ RunTick(1, 30)

SpecHistory ==
  Init({Env(<<LapRow(1, 10, 1), LapRow(1, 30, 2)>>, NoWeather, NoAnalysis)})
  /\ [][HistorySession]_vars

\* Sector occupancy, with ticks 3 s or 6 s apart.
SpecSector == Init(EnvSector) /\ [][Session({30, 60})]_vars

\* Synthetic samples, with ticks 30 s or 46 s apart.
SpecSim == Init(EnvSim) /\ [][Session({300, 460})]_vars

\* Alerts and coaching tips: a short dataset replayed at the tick period
\* until the virtual tires are worn below 85 percent, or synthetic samples
\* 46 s apart.
AlertSession ==
  \/ handle_connect(1)
  \/ run_race_start(1)
  \/ telemetry_data = NoData /\ Tick(1, 460)
  \/ telemetry_data # NoData /\ loops[1].ticks < MaxWearTicks /\ RunTick(1, 1)

SpecAlert == Init(EnvAlert) /\ [][AlertSession]_vars

\* ------------------------------------------------------------------------
\* Properties
\* ------------------------------------------------------------------------
Wheels == {"fl", "fr", "rl", "rr"}

\* Tick k of instance l has just run, after tick k - 1.
NextTick(l) == out'[l].n = out[l].n + 1

\* C1: every tick of run_race runs to completion and emits its packet; no
\* tick ends the loop with an exception, in particular not the statistics
\* update of a timed lap completion.
C1_EveryTickCompletes ==
  \A l \in LoopIds : out[l].error = "none" /\ loops[l].pc # "crashed"

\* C2: after any sequence of connects at most one run_race loop is running.
C2_AtMostOneLoop ==
  Cardinality({l \in LoopIds : loops[l].pc = "running"}) <= 1

\* C3: while the first session is running, a step that is not one of its own
\* ticks leaves the session state (history, records, best lap, insights,
\* weather cursor, last dispatched weather) unchanged.
C3_SessionStateOwned ==
  [][(loops[1].pc = "running" /\ loops'[1].ticks = loops[1].ticks)
       => UNCHANGED globals]_vars

\* C4: in every tick each per-wheel wear value stays within [0, 100] and is
\* not greater than its value at the previous tick.
C4_TireWearBounded ==
  [][\A l \in LoopIds :
       (NextTick(l) /\ out'[l].emitted) =>
         \A w \in Wheels :
           /\ out'[l].packet.tire_healths[w] >= 0
           /\ out'[l].packet.tire_healths[w] <= 1000000
           /\ out'[l].packet.tire_healths[w] <= loops[l].tires[w]]_vars

\* C5: the lap number carried in packets never decreases from one tick to
\* the next within a session.
C5_LapNonDecreasing ==
  [][\A l \in LoopIds :
       (NextTick(l) /\ out[l].emitted /\ out'[l].emitted) =>
         out'[l].packet.lap >= out[l].packet.lap]_vars

\* A sample whose lap index is below the counter was replayed after an
\* earlier tick, and the packet kept the counter's lap number.
C5_Witness ==
  \E l \in LoopIds :
    /\ out[l].emitted /\ out[l].n >= 2
    /\ out[l].lap_value > 0
    /\ out[l].lap_value < out[l].packet.lap

\* C6: when a lap completes with a timed duration D (here: a positive one)
\* while the insights hold a best lap B, the best lap held after the tick is
\* at most min(B, D).
C6_BestLapBound ==
  [][\A l \in LoopIds :
       (NextTick(l) /\ out'[l].emitted /\ Truthy(out'[l].lap_duration_this)
        /\ Val(out'[l].lap_duration_this) > 0
        /\ ~IsNone(out'[l].best_before)) =>
         /\ ~IsNone(session_insights'.best_lap_seconds)
         /\ Val(session_insights'.best_lap_seconds)
              <= Min(Val(out'[l].best_before), Val(out'[l].lap_duration_this))]_vars

\* The snapshots differ by at least 1 degree in temperature or in track
\* temperature; nothing dispatched yet counts as a difference.
WeatherDiffers(a, b) ==
  \/ IsNone(a) \/ IsNone(b)
  \/ Abs(Val(a).temp_c - Val(b).temp_c) >= 10
  \/ Abs(Val(a).track_temp_c - Val(b).track_temp_c) >= 10

\* C7: the weather of a packet differs from the weather of the previous
\* packet only on a tick where the cursor's snapshot differs from the last
\* dispatched snapshot by at least 1 degree.
C7_WeatherDamped ==
  [][\A l \in LoopIds :
       (NextTick(l) /\ out[l].emitted /\ out'[l].emitted
        /\ out'[l].packet.weather # out[l].packet.weather) =>
         WeatherDiffers(out'[l].snapshot, out'[l].sent_before)]_vars

\* C8: between two geofence crossings the distance exceeded 25 m on some
\* tick and more than 5 s elapsed; the distances 30, 10, 10, 20, 10 give
\* exactly one crossing.
C8_CrossingRearm ==
  \A l \in LoopIds :
    LET g == out[l].geo IN
    /\ \A i, j \in DOMAIN g :
         (i < j /\ g[i].crossed /\ g[j].crossed) =>
           /\ g[j].t - g[i].t > 50
           /\ \E k \in (i + 1)..(j - 1) : g[k].dist > 25
    /\ [k \in DOMAIN g |-> g[k].dist] = <<30, 10, 10, 20, 10>>
         => Cardinality({k \in DOMAIN g : g[k].crossed}) = 1

\* Two crossings, with a tick inside the 15 m radius between them that was
\* not declared a crossing.
C8_Witness ==
  \E l \in LoopIds :
    LET g == out[l].geo IN
    \E i, k, j \in DOMAIN g :
      /\ i < k /\ k < j
      /\ g[i].crossed /\ g[j].crossed
      /\ g[k].dist < 15 /\ ~g[k].crossed

\* C9: a geofence crossing is declared only on a tick of entry below 15 m:
\* the first tick, or a tick whose previous tick was at 15 m or more.
C9_CrossingOnEntryOnly ==
  \A l \in LoopIds :
    LET g == out[l].geo IN
    \A j \in DOMAIN g :
      g[j].crossed => (j = 1 \/ g[j - 1].dist >= 15)

\* C10: when the results feed holds a positive duration R for lap N and lap
\* N completes with a locally timed duration above R, the best lap after
\* that tick equals R if no recorded duration is smaller.
C10_FeedDurationIsBest ==
  [][\A l \in LoopIds : \A N \in DOMAIN analysis_lap_map :
       LET R == analysis_lap_map[N].lap IN
       (/\ NextTick(l) /\ out[l].emitted /\ out'[l].emitted
        /\ N >= stats_start_lap
        /\ out[l].packet.lap = N /\ out'[l].packet.lap = N
        /\ ~IsNone(R) /\ Val(R) > 0
        /\ Truthy(out'[l].lap_duration_this)
        /\ Val(out'[l].lap_duration_this) > Val(R)
        /\ \A i \in DOMAIN lap_duration_records' :
             ~IsNone(lap_duration_records'[i][2])
               => Val(lap_duration_records'[i][2]) >= Val(R))
       => session_insights'.best_lap_seconds = R]_vars

\* The time the synthetic lap timer of instance l refers to at its j-th
\* tick: the latest earlier tick that declared a synthetic completion, or
\* the start of the session.
SimReference(l, j) ==
  LET h == out[l].sim
      fired == {k \in 1..(j - 1) : h[k].fired}
  IN  IF fired = {} THEN out[l].started
      ELSE h[CHOOSE k \in fired : \A m \in fired : m <= k].t

\* C11: without a dataset a synthetic lap completion is declared exactly on
\* the ticks at which more than 90 s have elapsed since the session start or
\* since the previous synthetic completion.
C11_SyntheticTimer ==
  \A l \in LoopIds :
    (telemetry_data = NoData /\ out[l].n >= 1) =>
      \A j \in DOMAIN out[l].sim :
        out[l].sim[j].fired <=> out[l].sim[j].t - SimReference(l, j) > 900

\* Two synthetic completions, and a tick exactly 90 s after the session
\* start that declared none.
C11_Witness ==
  \E l \in LoopIds :
    /\ telemetry_data = NoData
    /\ Cardinality({j \in DOMAIN out[l].sim : out[l].sim[j].fired}) >= 2
    /\ \E j \in DOMAIN out[l].sim :
         out[l].sim[j].t - out[l].started = 900 /\ ~out[l].sim[j].fired

\* C12: on the tick where the synthetic timer fires, the session lap counter
\* is incremented by one.
C12_SyntheticLapCounted ==
  [][\A l \in LoopIds :
       (NextTick(l) /\ out'[l].emitted /\ out'[l].sim_lap_finished) =>
         loops'[l].current_lap = loops[l].current_lap + 1]_vars

\* The alerts and tips the claims name.
SteadyPace == Alert("Pace steady. Look for brake markers.", "info")
HeavyBrakingAlert == Alert("Heavy braking sustained; lift sooner to save brakes.", "warn")
PeakLateralAlert == Alert("Peak lateral load; unwind steering sooner.", "warn")
BlendTip == "Blend off brake before throttle to reduce tire scrub."
CarryTip == "Carry a touch more mid-corner speed; open steering sooner."
TireTip == "Back off 5% entry speed to save fronts for the stint."
LapCompleteTip == "Lap complete. Compare sector deltas."

Has(alerts, a) == \E i \in DOMAIN alerts : alerts[i] = a

\* The message of a coaching tip, "" for no tip.
TipMsg(tip) == IF IsNone(tip) THEN "" ELSE Val(tip).msg

\* One of the three conditions that precede the lap-complete tip holds for
\* the packet p.
HigherTip(p) ==
  \/ p.brake > 50 /\ p.throttle > 30
  \/ Abs(p.g_lat) > 12 /\ p.speed < 8000
  \/ p.tire_health < 8500

\* C13: every emitted packet carries at least one alert; the steady-pace
\* alert is present exactly when no rule, no lap-timing alert and no tip
\* matched in the tick, and then it is the only alert.
C13_DefaultAlert ==
  \A l \in LoopIds :
    out[l].emitted =>
      LET a == out[l].packet.alerts IN
      /\ Len(a) >= 1
      /\ Has(a, SteadyPace)
           <=> (out[l].rules_matched = 0 /\ IsNone(out[l].packet.coaching_tip))
      /\ Has(a, SteadyPace) => a = <<SteadyPace>>

\* A packet whose only alert is the steady-pace alert, after a packet of the
\* same session that carried a rule's alert.
C13_Witness ==
  \E l \in LoopIds :
    /\ out[l].emitted /\ out[l].n >= 2
    /\ out[l].packet.alerts = <<SteadyPace>>
    /\ \E i \in DOMAIN telemetry_data : HeavyBraking(telemetry_data[i])

C15_RulesIndependent ==
  \A l \in LoopIds :
    out[l].emitted =>
      LET p == out[l].packet IN
      /\ Has(p.alerts, HeavyBrakingAlert) <=> (p.brake > 85 /\ p.speed > 8000)
      /\ Has(p.alerts, PeakLateralAlert) <=> Abs(p.g_lat) > 18
      /\ TipMsg(p.coaching_tip) # PeakLateralAlert.msg
      /\ (Abs(p.g_lat) > 18 /\ ~HigherTip(p) /\ ~out[l].sim_lap_finished)
           => IsNone(p.coaching_tip)

\* Heavy braking and a peak lateral load in the same packet, both alerts
\* present, no coaching tip.
C15_Witness ==
  \E l \in LoopIds :
    /\ out[l].emitted
    /\ Has(out[l].packet.alerts, HeavyBrakingAlert)
    /\ Has(out[l].packet.alerts, PeakLateralAlert)
    /\ IsNone(out[l].packet.coaching_tip)

\* C16: on a tick where a lap completes (geofence crossing, lap index
\* transition, end of data or synthetic timer) without a timed duration and
\* no higher-priority tip condition holds, the tip is the lap-complete tip.
C16_LapCompleteTip ==
  \A l \in LoopIds :
    (/\ out[l].emitted
     /\ out[l].lap_finished \/ out[l].sim_lap_finished
     /\ ~Truthy(out[l].lap_duration_this)
     /\ ~HigherTip(out[l].packet))
    => TipMsg(out[l].packet.coaching_tip) = LapCompleteTip

\* C17: when the lap index signal fires, the tick's lap duration is the
\* lap index duration, and a geofence duration is a tick's lap duration only
\* when no sample of the dataset carries a lap index.
C17_CategoricalPrecedence ==
  \A l \in LoopIds :
    out[l].emitted =>
      /\ out[l].lap_crossed_data
           => out[l].lap_duration_this = out[l].lap_duration_data
      /\ (~out[l].lap_crossed_data /\ Truthy(out[l].lap_duration_this))
           => LapValues(telemetry_data) = <<>>

\* The explicit lap index seen last before the n-th tick of the history h,
\* 0 when there was none.
PreviousLapIndex(h, n) ==
  LET seen == {k \in 1..(n - 1) : h[k] > 0}
  IN  IF seen = {} THEN 0 ELSE h[CHOOSE k \in seen : \A m \in seen : m <= k]

\* C18: a lap index crossing is declared only on a tick whose sample carries
\* a lap index, greater than the lap index seen before it.
C18_CrossingNeedsLapIndex ==
  \A l \in LoopIds :
    (out[l].n >= 1 /\ out[l].lap_crossed_data) =>
      LET h == out[l].lap_values IN
      /\ h[Len(h)] > 0
      /\ h[Len(h)] > PreviousLapIndex(h, Len(h))

\* C19: with a dataset the cursor is inside the data at every tick, the tick
\* replays the sample under the cursor and moves the cursor to the next
\* sample, and the tick of the last sample returns it to the first sample and
\* counts one lap.
C19_CursorWraps ==
  [][\A l \in LoopIds :
       (telemetry_data # NoData /\ NextTick(l)) =>
         LET i == loops[l].index
             n == Len(telemetry_data) IN
         /\ i \in 0..(n - 1)
         /\ out'[l].recorded
         /\ out'[l].dist = telemetry_data[i + 1].dist
         /\ out'[l].lap_value = telemetry_data[i + 1].lap_value
         /\ out'[l].emitted =>
              /\ loops'[l].index = (i + 1) % n
              /\ (i + 1 = n) =>
                   /\ out'[l].lap_finished
                   /\ loops'[l].current_lap = out'[l].packet.lap + 1]_vars

\* The dataset of several samples was replayed to its end, and a later tick
\* replayed its first sample again.
C19_Witness ==
  \E l \in LoopIds :
    /\ Len(telemetry_data) >= 2
    /\ out[l].emitted /\ out[l].n = Len(telemetry_data) + 1
    /\ loops[l].index = 1

\* C20: on a tick where the lap index signal fires on a sample's own lap
\* index, the lap counter ends the tick at max(previous counter, lap index).
C20_NoSecondIncrement ==
  [][\A l \in LoopIds :
       (NextTick(l) /\ out'[l].emitted /\ out'[l].lap_crossed_data
        /\ out'[l].lap_value > 0) =>
         loops'[l].current_lap = Max(loops[l].current_lap, out'[l].lap_value)]_vars

\* C21: when the lap index rises on a tick but no duration can be computed
\* from the timestamps, the lap index crossing is suppressed: the tick
\* declares a lap index crossing only together with its duration.
C21_UntimedCrossingSuppressed ==
  \A l \in LoopIds :
    (out[l].n >= 1 /\ out[l].lap_crossed_data)
      => ~IsNone(out[l].lap_duration_data)

\* C22: every emitted packet has a value for each of its fields; the one
\* field that can be None is the weather.
C22_PacketFieldsDefined ==
  \A l \in LoopIds :
    out[l].emitted =>
      /\ ~IsNone(out[l].packet.weather)
      /\ DOMAIN out[l].packet.tire_healths = Wheels
      /\ out[l].packet.lap >= 1 /\ out[l].packet.total_laps >= 1

\* C23: the step that starts a session leaves all session state fresh: tires
\* at 100, the lap counter at the first lap, empty history and records, no
\* statistics, no best sectors, pit count 0, no last dispatched weather.
C23_FreshSession ==
  [][\A l \in LoopIds :
       (loops[l].pc = "spawned" /\ loops'[l].pc = "running") =>
         /\ \A w \in Wheels : loops'[l].tires[w] = 1000000
         /\ loops'[l].current_lap = lap_start_value
         /\ lap_times_history' = <<>> /\ lap_duration_records' = <<>>
         /\ lap_durations' = <<>> /\ session_best_lap' = None
         /\ session_insights' = InsightsDefault
         /\ last_weather_sent' = None]_vars

\* C24: the lap_times list of the session insights (with its provisional
\* entry), the lap history and the lap-duration records each hold at most
\* 120 entries.
C24_HistoryWindow ==
  /\ Len(session_insights.lap_times) <= 120
  /\ Len(lap_times_history) <= 120
  /\ Len(lap_duration_records) <= 120

\* C25: the session top speed never decreases; it changes exactly on the
\* ticks at or after the excluded-lap threshold whose speed exceeds it by
\* more than 0.5, to that speed; the session insights publish it.
C25_TopSpeed ==
  [][\A l \in LoopIds :
       (NextTick(l) /\ out'[l].emitted) =>
         LET old == loops[l].session_best_speed
             new == loops'[l].session_best_speed
             p == out'[l].packet
             beats == p.lap >= top_speed_start_lap /\ p.speed > old + 50 IN
         /\ new >= old
         /\ new # old => beats
         /\ beats => new = p.speed
         /\ session_insights'.top_speed_kph =
              (IF new > 0 THEN Some(new) ELSE None)]_vars

\* C26: no lap below the warm-up threshold contributes to the statistics:
\* every recorded duration, and the best lap, is the duration (timed, or
\* given by the results feed) of a lap whose number is at least
\* stats_start_lap.
C26_WarmupExcluded ==
  \A l \in LoopIds :
    out[l].n >= 1 =>
      LET timed == {out[l].timed[k].seconds :
                      k \in {j \in DOMAIN out[l].timed :
                               out[l].timed[j].lap >= stats_start_lap}}
          feed == {Val(analysis_lap_map[k].lap) :
                     k \in {j \in DOMAIN analysis_lap_map :
                              /\ j >= stats_start_lap
                              /\ ~IsNone(analysis_lap_map[j].lap)}}
          official == timed \cup feed IN
      /\ \A i \in DOMAIN lap_duration_records :
           ~IsNone(lap_duration_records[i][2])
             => Val(lap_duration_records[i][2]) \in official
      /\ ~IsNone(session_insights.best_lap_seconds)
           => Val(session_insights.best_lap_seconds) \in official

\* A lap boundary was detected in the tick just run.
Boundary(l) ==
  out[l].lap_crossed \/ out[l].lap_crossed_data \/ out[l].reached_end

\* C27: on every lap-boundary tick the current-lap sector state is cleared
\* before the position is classified: no occupancy duration is recorded, the
\* sector of the position starts afresh at the tick's time, and the
\* best-of-session sector mapping is left unchanged.
C27_BoundaryClearsSectors ==
  [][\A l \in LoopIds :
       (NextTick(l) /\ out'[l].emitted /\ Boundary(l)') =>
         /\ out'[l].occupancy = out[l].occupancy
         /\ loops'[l].current_sector_times = NoSectorMap
         /\ loops'[l].current_sector = out'[l].new_sector
         /\ loops'[l].sector_start_times =
              [s \in Sectors |-> IF Some(s) = out'[l].new_sector
                                 THEN Some(out'[l].t) ELSE None]
         /\ loops'[l].live_sector_times = loops[l].live_sector_times]_vars

\* A lap-boundary tick that found the car timed in one sector and classified
\* it in another one.
C27_Witness ==
  \E l \in LoopIds :
    /\ out[l].emitted /\ Boundary(l)
    /\ ~IsNone(out[l].sector_before) /\ ~IsNone(out[l].new_sector)
    /\ out[l].sector_before # out[l].new_sector
    /\ \E s \in Sectors : ~IsNone(loops[l].live_sector_times[s])

\* The positive occupancy durations recorded for sector s in history h.
SectorDurations(h, s) ==
  {h[k].seconds : k \in {j \in DOMAIN h : h[j].sector = s /\ h[j].seconds > 0}}

\* C28: the best time of a sector never increases; it is replaced, with the
\* current lap number, only by a strictly smaller occupancy duration of the
\* sector just left, and equals the minimum of the positive occupancy
\* durations recorded for the sector.
C28_SectorBest ==
  [][\A l \in LoopIds : \A s \in Sectors :
       (NextTick(l) /\ out'[l].emitted) =>
         LET old == loops[l].live_sector_times[s]
             new == loops'[l].live_sector_times[s]
             durs == SectorDurations(out'[l].occupancy, s)
             h == out'[l].occupancy IN
         /\ ~IsNone(old) => ~IsNone(new) /\ Val(new).seconds <= Val(old).seconds
         /\ new # old =>
              /\ Len(h) = Len(out[l].occupancy) + 1
              /\ h[Len(h)].sector = s
              /\ out'[l].sector_before = Some(s)
              /\ ~IsNone(old) => h[Len(h)].seconds < Val(old).seconds
              /\ Val(new).seconds = h[Len(h)].seconds
              /\ Val(new).lap = out'[l].packet.lap
         /\ IF durs = {} THEN IsNone(new)
            ELSE ~IsNone(new) /\ \A d \in durs : Val(new).seconds <= d
                 /\ Val(new).seconds \in durs]_vars

\* A sector's best was replaced by a strictly smaller duration recorded
\* later for the same sector.
C28_Witness ==
  \E l \in LoopIds : \E s \in Sectors :
    LET h == out[l].occupancy IN
    /\ ~IsNone(loops[l].live_sector_times[s])
    /\ \E i, j \in DOMAIN h :
         /\ i < j
         /\ h[i].sector = s /\ h[j].sector = s
         /\ h[j].seconds < h[i].seconds
         /\ Val(loops[l].live_sector_times[s]).seconds = h[j].seconds

\* The duration of the lap completed in the tick just run: the results
\* feed's duration for that lap when present and positive, otherwise the
\* duration timed locally in this tick.
OwnDuration(l) ==
  LET lap == out[l].packet.lap
      R == IF lap \in DOMAIN analysis_lap_map
           THEN analysis_lap_map[lap].lap ELSE None
  IN  IF ~IsNone(R) /\ Val(R) > 0 THEN R ELSE out[l].lap_duration_this

\* C29: the history entry and the statistics record appended on a tick that
\* completes a timed lap carry the duration of that lap, not a duration
\* determined on an earlier completion.
C29_SameLapDuration ==
  \A l \in LoopIds :
    (out[l].emitted /\ Truthy(out[l].lap_duration_this)) =>
      /\ lap_times_history # <<>>
      /\ lap_times_history[Len(lap_times_history)].lap = out[l].packet.lap
      /\ lap_times_history[Len(lap_times_history)].seconds = OwnDuration(l)
      /\ out[l].packet.lap >= stats_start_lap =>
           /\ lap_duration_records # <<>>
           /\ lap_duration_records[Len(lap_duration_records)]
                = <<out[l].packet.lap, OwnDuration(l)>>

\* C30: every lap duration emitted in a packet (lap_time_sec) or announced
\* in a lap-complete alert is strictly positive.
C30_PositiveLapDuration ==
  \A l \in LoopIds :
    out[l].emitted =>
      /\ ~IsNone(out[l].packet.lap_time_sec)
           => Val(out[l].packet.lap_time_sec) > 0
      /\ \A i \in DOMAIN out[l].packet.alerts :
           out[l].packet.alerts[i].msg = "Lap complete in"
             => out[l].packet.alerts[i].val > 0

\* C31: the lap number in the lap-complete alert and in the history entry of
\* a timed lap completion is the number of the lap that just ended, the
\* value the lap counter had before the completing tick, whether the lap
\* index signal or the geofence signal detected the completion.
C31_CompletedLapNumber ==
  [][\A l \in LoopIds :
       (NextTick(l) /\ out'[l].emitted /\ Truthy(out'[l].lap_duration_this)) =>
         /\ \A i \in DOMAIN out'[l].packet.alerts :
              out'[l].packet.alerts[i].msg = "Lap complete in"
                => out'[l].packet.alerts[i].lap = loops[l].current_lap
         /\ lap_times_history' # <<>>
         /\ lap_times_history'[Len(lap_times_history')].lap
              = loops[l].current_lap]_vars

====
